---- MODULE Spec2Model ----
(***************************************************************************)
(* Website Time Manager: the background tracker (WebsiteTimeManager of     *)
(* src/background/index.ts) together with the browser it runs in.          *)
(*                                                                         *)
(* JavaScript is single threaded: a handler runs until it reaches an await *)
(* on a browser call (chrome.tabs.get, chrome.storage.local.get/set,       *)
(* chrome.tabs.update, chrome.tabs.query).  One step of the model is one   *)
(* such run: a browser event or the answer of a pending browser call,      *)
(* followed by the code up to the next pending call.  The handlers that    *)
(* are suspended on a call are the records of the bag "handlers".          *)
(*                                                                         *)
(* Times are milliseconds.  null is 0 for sessionStartTime and             *)
(* trackingInterval (the code tests both by truthiness, Date.now() and     *)
(* timer ids are positive) and NoTab for activeTab.  Strings that the code *)
(* inspects character by character (hostnames, registry domains) are       *)
(* tuples of one-character strings.                                        *)
(***************************************************************************)
EXTENDS Integers, Sequences, FiniteSets, Bags, TLC

VARIABLES
  now,               \* Date.now()
  timeZone,          \* local time minus UTC, in milliseconds
  tabs,              \* browser: tab id -> URL shown by the tab
  activeTabId,       \* browser: the active tab of the window
  focused,           \* browser: TRUE iff the browser window has the focus
  store,             \* chrome.storage.local: <<site, day>> -> timeSpent
  sites,             \* state.sites, in insertion order
  defaultTimeLimit,  \* state.defaultTimeLimit
  activeTab,         \* state.activeTab
  sessionStartTime,  \* state.sessionStartTime
  trackingInterval,  \* state.trackingInterval
  timers,            \* browser: ids of the interval timers that are live
  handlers,          \* bag of the suspended async handlers
  uncaught,          \* TRUE iff the run of the last step ended with an exception
                     \* that no catch took (reported by the browser as an
                     \* uncaught error or an unhandled promise rejection)
  notifications,     \* browser: number of notifications created
  popup,             \* popup: state.settings.sites, in insertion order
  content,           \* content script of a tab: its warning and its timeouts
  response,          \* the response that the run of the last step has sent
                     \* with sendResponse, if it has sent one
  capacity           \* browser: the number of calls of the extension that it
                     \* has pending at a time

vars == <<now, timeZone, tabs, activeTabId, focused, store, sites, defaultTimeLimit,
          activeTab, sessionStartTime, trackingInterval, timers, handlers,
          uncaught, notifications, popup, content, response, capacity>>

\* the state outside the background script
surfaces == <<notifications, popup, content, capacity>>

----------------------------------------------------------------------------
(* Bounds of the model *)

MaxSeconds == 1     \* one-second clock steps per day
MaxJumps == 1       \* ten-day clock jumps (sleep / resume)
MaxInflight == 2    \* handlers suspended at the same time
MaxOverlap == 3     \* the same where ticks overlap a slow storage write
MaxRollovers == 1   \* firings of the dailyReset alarm
MaxWarnings == 3    \* warnings that the content script of a tab creates

----------------------------------------------------------------------------
(* Program constants *)

DEFAULT_TIME_LIMIT == 30
MAX_UPDATE_INTERVAL == 5000
WARNING_THRESHOLD_PCT == 80
MinTimeLimit == 1
MaxTimeLimit == 480
TickPeriod == 1000
\* getTabWithTimeout(tabId, timeout = 3000)
TabTimeoutMs == 3000
\* content script: setTimeout(() => this.hideWarning(), 10000)
WarningDismissMs == 10000
MsPerMinute == 60 * 1000
DayMs == 24 * 60 * 60 * 1000
Jump == 10 * DayMs

----------------------------------------------------------------------------
(* Strings *)

\* "youtube.com", "reddit.com", "example.org" and the prefix "www.", shortened
YT == <<"y", ".", "c">>
RD == <<"r", ".", "c">>
EX == <<"e", ".", "o">>
\* "m.youtube.com" and "notyoutube.com"
MYT == <<"m", ".">> \o YT
NYT == <<"n">> \o YT
WWW == <<"w", "w", "w", ".">>
EmptyStr == <<>>

StartsWith(s, p) == Len(s) >= Len(p) /\ SubSeq(s, 1, Len(p)) = p
EndsWith(s, p) == Len(s) >= Len(p) /\ SubSeq(s, Len(s) - Len(p) + 1, Len(s)) = p

\* hostname.replace(/^www\./, '')
extractSite(hostname) ==
  IF hostname = EmptyStr THEN EmptyStr
  ELSE IF StartsWith(hostname, WWW)
       THEN SubSeq(hostname, Len(WWW) + 1, Len(hostname))
       ELSE hostname

\* validateDomain: the domain without its "www." is not empty and holds a
\* dot (the strings of the model hold no character that isValidUrl rejects)
validDomain(domain) ==
  LET cleanDomain == extractSite(domain)
  IN  cleanDomain # EmptyStr
      /\ \E i \in 1..Len(cleanDomain) : cleanDomain[i] = "."

\* validateTimeLimit: a limit below 1 or above 480 minutes is an error
validTimeLimit(timeLimit) ==
  ~(timeLimit < MinTimeLimit \/ timeLimit > MaxTimeLimit)

(* URLs: the scheme and the hostname that new URL(url).hostname yields. *)
NoUrl == [scheme |-> "", host |-> EmptyStr]
Url(scheme, host) == [scheme |-> scheme, host |-> host]
BlockedUrl == Url("chrome-extension", EmptyStr)

isSystemUrl(url) == url.scheme \in {"chrome", "chrome-extension", "edge", "about"}

----------------------------------------------------------------------------
(* The site registry (a Map, iterated in insertion order) *)

SiteIndex(reg, domain) ==
  IF \E i \in 1..Len(reg) : reg[i].domain = domain
  THEN CHOOSE i \in 1..Len(reg) : reg[i].domain = domain
  ELSE 0

\* hostname.endsWith('.' + site) || hostname === site
MatchesSuffix(hostname, site) == EndsWith(hostname, site)
MatchesSite(hostname, site) ==
  EndsWith(hostname, <<".">> \o site) \/ hostname = site

\* the string returned, or EmptyStr for null
findMatchingSiteLoopOnly(hostname, reg) ==
  IF hostname = EmptyStr THEN EmptyStr
  ELSE LET hits == {i \in 1..Len(reg) : MatchesSite(hostname, reg[i].domain)}
       IN IF hits = {} THEN EmptyStr
          ELSE reg[CHOOSE i \in hits : \A j \in hits : i <= j].domain
findMatchingSite(hostname, reg) ==
  IF hostname = EmptyStr THEN EmptyStr
  ELSE IF SiteIndex(reg, hostname) # 0 THEN hostname
  ELSE LET hits == {i \in 1..Len(reg) : MatchesSite(hostname, reg[i].domain)}
       IN IF hits = {} THEN EmptyStr
          ELSE reg[CHOOSE i \in hits : \A j \in hits : i <= j].domain

siteEnabledAlways(reg, site) == SiteIndex(reg, site) # 0
siteEnabled(reg, site) ==
  SiteIndex(reg, site) # 0 /\ reg[SiteIndex(reg, site)].enabled

\* siteConfig?.timeLimit || defaultTimeLimit, in milliseconds
getSiteTimeLimit(reg, dflt, site) ==
  LET i == SiteIndex(reg, site)
      limitMinutes == IF i # 0 /\ reg[i].timeLimit # 0 THEN reg[i].timeLimit ELSE dflt
  IN limitMinutes * MsPerMinute

----------------------------------------------------------------------------
(* Dates and the ledger *)

\* new Date().toISOString().split('T')[0]: the UTC day, as a day number
getTodayString(t) == t \div DayMs

\* tomorrow 00:00:00.000 of the local calendar: setDate(getDate() + 1),
\* setHours(0, 0, 0, 0), getTime()
getNextMidnight(t, tz) == ((t + tz) \div DayMs + 1) * DayMs - tz

LedgerKey(site, day) == <<site, day>>

\* the storage keys of the settings, and key.startsWith('timeData_') (in
\* the legacy script, 'time_')
SitesKey == <<"sites">>
DefaultTimeLimitKey == <<"defaultTimeLimit">>
isTimeKey(key) == Len(key) = 2

\* result[storageKey] || { timeSpent: 0, ... }
Ledger(st, site, day) ==
  IF LedgerKey(site, day) \in DOMAIN st THEN st[LedgerKey(site, day)] ELSE 0

\* getTimeData, lines 348-367: the stored entry of (site, today), or the zero
\* entry when there is none and when chrome.storage.local.get throws (~ok)
getTimeDataNoCatch(st, site, today, ok) ==
  IF ok THEN [timeSpent |-> Ledger(st, site, today), date |-> today]
  ELSE [timeSpent |-> -1, date |-> -1]
getTimeData(st, site, today, ok) ==
  IF ok THEN [timeSpent |-> Ledger(st, site, today), date |-> today]
  ELSE [timeSpent |-> 0, date |-> today]

StorageSet(st, key, value) ==
  [k \in DOMAIN st \cup {key} |-> IF k = key THEN value ELSE st[k]]

Min(a, b) == IF a <= b THEN a ELSE b

\* Math.min(sessionTime, this.state.maxUpdateInterval)
ClampNone(sessionTime) == sessionTime
ClampMax(sessionTime) == IF sessionTime >= MAX_UPDATE_INTERVAL THEN sessionTime ELSE MAX_UPDATE_INTERVAL
Clamp(sessionTime) == Min(sessionTime, MAX_UPDATE_INTERVAL)

----------------------------------------------------------------------------
(* Suspended handlers *)

NoTab == [site |-> EmptyStr, tabId |-> 0]

\* sendResponse({ success, error }) of handleMessage; sent: the number of
\* calls of sendResponse in the step
NoResponse == [sent |-> 0, success |-> FALSE, error |-> ""]
Success == [sent |-> 1, success |-> TRUE, error |-> ""]
Failure(error) == [sent |-> 1, success |-> FALSE, error |-> error]

\* kind: "tabChange" (handleTabChange), "update" (updateTimeSpent),
\*       "focus" (the tabs.query callback of onFocusChanged),
\*       "reset" (resetDailyData), "message" (handleMessage)
\* keys: for "reset", the storage keys to remove; for "message", the domains
\*       of the sites that saveSettings is writing
\* pc:   the browser call the handler is suspended on
\* from: for "update", the caller: "interval" or "stop"
\* timer: for getTabWithTimeout, the time its setTimeout is due; 0: no timer
Handler(kind, pc) ==
  [kind |-> kind, pc |-> pc, from |-> "", tabId |-> 0, site |-> EmptyStr,
   now |-> 0, sessionTime |-> 0, timeSpent |-> 0, newTimeSpent |-> 0,
   day |-> 0, keys |-> {}, timer |-> 0]

Spawn(bag, h) == bag (+) SetToBag({h})
Retire(bag, h) == bag (-) SetToBag({h})

\* The part of the state that the session operations read and write.
Session ==
  [activeTab |-> activeTab, sessionStartTime |-> sessionStartTime,
   trackingInterval |-> trackingInterval, timers |-> timers,
   handlers |-> handlers]

----------------------------------------------------------------------------
(* Session operations, as functions of the session state *)

\* stopTracking, lines 237-243: clear the session fields, cancel the timer
ClearSessionKeepTimer(s) ==
  [s EXCEPT !.activeTab = NoTab, !.sessionStartTime = 0, !.trackingInterval = 0]
ClearSession(s) ==
  [s EXCEPT !.activeTab = NoTab, !.sessionStartTime = 0, !.trackingInterval = 0,
            !.timers = IF s.trackingInterval # 0
                       THEN s.timers \ {s.trackingInterval} ELSE s.timers]

\* updateTimeSpent up to its first await (the storage read of getTimeData).
\* In an invalid state it calls stopTracking, whose guard is then false.
UpdateTimeSpentCall(s, from) ==
  IF s.activeTab = NoTab \/ s.sessionStartTime = 0
  THEN ClearSession(s)
  ELSE LET sessionTime == now - s.sessionStartTime
           h == [Handler("update", "read") EXCEPT
                   !.from = from, !.site = s.activeTab.site, !.now = now,
                   !.sessionTime = sessionTime, !.day = getTodayString(now)]
       IN [s EXCEPT
             !.sessionStartTime =
                IF sessionTime > MAX_UPDATE_INTERVAL
                THEN now - Min(sessionTime, MAX_UPDATE_INTERVAL)
                ELSE s.sessionStartTime,
             !.handlers = Spawn(s.handlers, h)]

\* stopTracking: flush without awaiting it, then clear
StopTrackingNoClear(s) ==
  LET s1 == IF s.activeTab # NoTab /\ s.sessionStartTime # 0
            THEN UpdateTimeSpentCall(s, "stop")
            ELSE s
  IN [s1 EXCEPT !.trackingInterval = 0,
                !.timers = IF s1.trackingInterval # 0
                           THEN s1.timers \ {s1.trackingInterval} ELSE s1.timers]
StopTracking(s) ==
  ClearSession(IF s.activeTab # NoTab /\ s.sessionStartTime # 0
               THEN UpdateTimeSpentCall(s, "stop")
               ELSE s)

\* setInterval returns an id that no live timer has; which one is the
\* browser's choice and no code depends on it: the smallest is taken
NewTimer(live) == CHOOSE id \in 1..(Cardinality(live) + 1) : id \notin live

\* startTracking
StartTracking(s, site, tabId) ==
  LET s1 == StopTracking(s)
      id == NewTimer(s1.timers)
  IN [s1 EXCEPT !.activeTab = [site |-> site, tabId |-> tabId],
                !.sessionStartTime = now,
                !.trackingInterval = id,
                !.timers = s1.timers \cup {id}]

\* handleTabChange up to its first await (chrome.tabs.get)
HandleTabChangeCall(s, tabId) ==
  LET s1 == StopTracking(s)
  IN [s1 EXCEPT !.handlers =
        Spawn(s1.handlers, [Handler("tabChange", "getTab") EXCEPT
                              !.tabId = tabId, !.timer = now + TabTimeoutMs])]

\* percentage >= 1.0, with percentage = timeSpent / siteLimitMs
IsBlockedStrict(timeSpent, limitMs) == timeSpent > limitMs
IsBlocked(timeSpent, limitMs) == timeSpent >= limitMs

\* percentage >= this.state.warningThreshold (0.8), for a positive limit
IsWarningBelow(timeSpent, limitMs) == 100 * timeSpent <= WARNING_THRESHOLD_PCT * limitMs
IsWarning(timeSpent, limitMs) == 100 * timeSpent >= WARNING_THRESHOLD_PCT * limitMs

\* the branch that checkTimeThresholds takes: its if / else if
ThresholdState(timeSpent, limitMs) ==
  IF IsBlocked(timeSpent, limitMs) THEN "Blocked"
  ELSE IF IsWarning(timeSpent, limitMs) THEN "Warning"
  ELSE "Normal"

\* checkTimeThresholds(site, newTimeSpent) called by handler h.  At or over
\* the limit it calls blockSite for the tab of the session that is active
\* now, which awaits chrome.tabs.update.  From 80% of the limit it calls
\* showWarning, which awaits chrome.tabs.sendMessage to that tab.  Without
\* an active session neither call is made.
CheckTimeThresholds(s, h) ==
  LET siteLimitMs == getSiteTimeLimit(sites, defaultTimeLimit, h.site)
      state == ThresholdState(h.newTimeSpent, siteLimitMs)
  IN IF state = "Blocked" /\ s.activeTab # NoTab
     THEN [s EXCEPT !.handlers =
             Spawn(s.handlers, [h EXCEPT !.pc = "block", !.tabId = s.activeTab.tabId])]
     ELSE IF state = "Warning" /\ s.activeTab # NoTab
     THEN [s EXCEPT !.handlers =
             Spawn(s.handlers, [h EXCEPT !.pc = "warn", !.tabId = s.activeTab.tabId])]
     ELSE s

----------------------------------------------------------------------------
(* Applying a session state; every action is guarded by the bounds *)

Apply(s) ==
  /\ BagCardinality(s.handlers) <= capacity
  /\ activeTab' = s.activeTab
  /\ sessionStartTime' = s.sessionStartTime
  /\ trackingInterval' = s.trackingInterval
  /\ timers' = s.timers
  /\ handlers' = s.handlers

Without(h) == [Session EXCEPT !.handlers = Retire(handlers, h)]

Suspended(kind, pc) == {h \in BagToSet(handlers) : h.kind = kind /\ h.pc = pc}

----------------------------------------------------------------------------
(* Initial state *)

\* youtube.com with a limit of one minute, reddit.com switched off
Registry == <<[domain |-> YT, enabled |-> TRUE, timeLimit |-> 1],
              [domain |-> RD, enabled |-> FALSE, timeLimit |-> DEFAULT_TIME_LIMIT]>>

TabIds == {1, 2}

\* UTC, India (+5:30) and US Eastern (-5:00)
TimeZones == {0, 330 * MsPerMinute, -(300 * MsPerMinute)}

\* the day of the rollover runs: ten days of history are stored
RolloverDay == Jump \div DayMs
TabUrls == {Url("https", WWW \o YT), Url("https", EX)}

\* the stored ledger survives restarts of the browser: youtube.com starts
\* the day one second short of its limit
InitialTimeSpent == getSiteTimeLimit(Registry, DEFAULT_TIME_LIMIT, YT) - TickPeriod
InitialStore == [k \in {LedgerKey(YT, 0)} |-> InitialTimeSpent]

\* the popup has loaded the stored sites, the built-in default ones
PopupSites ==
  [i \in DOMAIN Registry |->
     [domain |-> Registry[i].domain, enabled |-> Registry[i].enabled,
      timeLimit |-> Registry[i].timeLimit, isDefault |-> TRUE]]

InitSurfaces ==
  /\ capacity = MaxInflight
  /\ notifications = 0
  /\ popup = PopupSites
  /\ content = [warningShown |-> FALSE, warningElement |-> 0, overlay |-> FALSE,
                created |-> 0, timeouts |-> {}]

Init ==
  /\ now = TickPeriod
  /\ timeZone = 0
  /\ tabs = [t \in TabIds |-> IF t = 1 THEN Url("https", WWW \o YT) ELSE Url("https", EX)]
  /\ activeTabId = 2
  /\ focused = TRUE
  /\ store = InitialStore
  /\ sites = Registry
  /\ defaultTimeLimit = DEFAULT_TIME_LIMIT
  /\ activeTab = NoTab
  /\ sessionStartTime = 0
  /\ trackingInterval = 0
  /\ timers = {}
  /\ handlers = EmptyBag
  /\ uncaught = FALSE
  /\ response = NoResponse
  /\ InitSurfaces

----------------------------------------------------------------------------
(* The clock *)

Second ==
  /\ (now % MsPerMinute) \div TickPeriod <= MaxSeconds
  /\ now' = now + TickPeriod
  /\ uncaught' = FALSE
  /\ response' = NoResponse
  /\ UNCHANGED surfaces
  /\ UNCHANGED <<timeZone, tabs, activeTabId, focused, store, sites,
                 defaultTimeLimit, activeTab, sessionStartTime, trackingInterval, timers,
                 handlers>>

SleepResume ==
  /\ now \div Jump < MaxJumps
  /\ now' = now + Jump
  /\ uncaught' = FALSE
  /\ response' = NoResponse
  /\ UNCHANGED surfaces
  /\ UNCHANGED <<timeZone, tabs, activeTabId, focused, store, sites,
                 defaultTimeLimit, activeTab, sessionStartTime, trackingInterval, timers,
                 handlers>>

----------------------------------------------------------------------------
(* Browser events *)

\* chrome.tabs.onActivated
TabActivated(t) ==
  /\ t # activeTabId
  /\ activeTabId' = t
  /\ Apply(HandleTabChangeCall(Session, t))
  /\ uncaught' = FALSE
  /\ response' = NoResponse
  /\ UNCHANGED surfaces
  /\ UNCHANGED <<now, tabs, focused, store, sites, defaultTimeLimit, timeZone>>

\* chrome.tabs.onUpdated with status "complete": tab t has loaded url
TabUpdated(t, url) ==
  /\ tabs' = [tabs EXCEPT ![t] = url]
  /\ IF t = activeTabId
     THEN Apply(HandleTabChangeCall(Session, t))
     ELSE UNCHANGED <<activeTab, sessionStartTime, trackingInterval, timers,
                      handlers>>
  /\ uncaught' = FALSE
  /\ response' = NoResponse
  /\ UNCHANGED surfaces
  /\ UNCHANGED <<now, activeTabId, focused, store, sites, defaultTimeLimit, timeZone>>

\* chrome.windows.onFocusChanged(WINDOW_ID_NONE)
WindowBlur ==
  /\ focused
  /\ focused' = FALSE
  /\ Apply(StopTracking(Session))
  /\ uncaught' = FALSE
  /\ response' = NoResponse
  /\ UNCHANGED surfaces
  /\ UNCHANGED <<now, tabs, activeTabId, store, sites, defaultTimeLimit, timeZone>>

\* chrome.windows.onFocusChanged(windowId): chrome.tabs.query is issued
WindowFocus ==
  /\ ~focused
  /\ focused' = TRUE
  /\ Apply([Session EXCEPT !.handlers = Spawn(handlers, Handler("focus", "query"))])
  /\ uncaught' = FALSE
  /\ response' = NoResponse
  /\ UNCHANGED surfaces
  /\ UNCHANGED <<now, tabs, activeTabId, store, sites, defaultTimeLimit, timeZone>>

\* the callback of chrome.tabs.query({active: true, windowId}).  When the
\* query fails the browser sets chrome.runtime.lastError and calls back
\* without a result: tabs.length throws a TypeError inside the callback
QueryDone(h, ok) ==
  /\ h \in Suspended("focus", "query")
  /\ IF ok
     THEN Apply(HandleTabChangeCall(Without(h), activeTabId))
     ELSE Apply(Without(h))
  /\ uncaught' = ~ok
  /\ response' = NoResponse
  /\ UNCHANGED surfaces
  /\ UNCHANGED <<now, tabs, activeTabId, focused, store, sites, defaultTimeLimit, timeZone>>

\* the setInterval callback of startTracking
IntervalTick ==
  /\ timers # {}
  /\ Apply(UpdateTimeSpentCall(Session, "interval"))
  /\ uncaught' = FALSE
  /\ response' = NoResponse
  /\ UNCHANGED surfaces
  /\ UNCHANGED <<now, tabs, activeTabId, focused, store, sites, defaultTimeLimit, timeZone>>

----------------------------------------------------------------------------
(* handleTabChange *)

\* chrome.tabs.get answers before the timer has fired: the timer is cleared,
\* the tab (ok) or, with chrome.runtime.lastError set (~ok), null is resolved
TabGot(h, ok) ==
  /\ h \in Suspended("tabChange", "getTab")
  /\ LET tab == tabs[h.tabId]
         matchedSite == findMatchingSite(extractSite(tab.host), sites)
     IN IF \/ ~ok
           \/ tab = NoUrl
           \/ isSystemUrl(tab)
           \/ matchedSite = EmptyStr
           \/ ~siteEnabled(sites, matchedSite)
        THEN Apply(Without(h))
        ELSE Apply([Session EXCEPT !.handlers =
                      Spawn(Retire(handlers, h),
                            [h EXCEPT !.pc = "read", !.site = matchedSite,
                                      !.day = getTodayString(now),
                                      !.timer = 0])])
  /\ uncaught' = FALSE
  /\ response' = NoResponse
  /\ UNCHANGED surfaces
  /\ UNCHANGED <<now, tabs, activeTabId, focused, store, sites, defaultTimeLimit, timeZone>>

\* the setTimeout of getTabWithTimeout fires: null is resolved and
\* handleTabChange returns; chrome.tabs.get has not answered yet
TabTimeout(h) ==
  /\ h \in Suspended("tabChange", "getTab")
  /\ now >= h.timer
  /\ Apply([Session EXCEPT !.handlers =
              Spawn(Retire(handlers, h), [h EXCEPT !.pc = "late", !.timer = 0])])
  /\ uncaught' = FALSE
  /\ response' = NoResponse
  /\ UNCHANGED surfaces
  /\ UNCHANGED <<now, tabs, activeTabId, focused, store, sites, defaultTimeLimit, timeZone>>

\* chrome.tabs.get answers after the timer has fired, as it would go on if
\* the promise were not settled: with the tab
LateTabGotResolves(h, ok) ==
  /\ h \in Suspended("tabChange", "late")
  /\ Apply(IF ok
           THEN [Session EXCEPT !.handlers =
                   Spawn(Retire(handlers, h),
                         [h EXCEPT !.pc = "read", !.site = YT,
                                   !.day = getTodayString(now)])]
           ELSE Without(h))
  /\ uncaught' = FALSE
  /\ response' = NoResponse
  /\ UNCHANGED surfaces
  /\ UNCHANGED <<now, tabs, activeTabId, focused, store, sites, defaultTimeLimit, timeZone>>

\* chrome.tabs.get answers after the timer has fired: clearTimeout of a
\* fired timer and resolve of a settled promise do nothing
LateTabGot(h, ok) ==
  /\ h \in Suspended("tabChange", "late")
  /\ Apply(Without(h))
  /\ uncaught' = FALSE
  /\ response' = NoResponse
  /\ UNCHANGED surfaces
  /\ UNCHANGED <<now, tabs, activeTabId, focused, store, sites, defaultTimeLimit, timeZone>>

\* getTimeData answers: the stored entry, or the zero entry when the read fails
TabChangeRead(h, ok) ==
  /\ h \in Suspended("tabChange", "read")
  /\ LET timeSpent == getTimeData(store, h.site, h.day, ok).timeSpent
         siteLimitMs == getSiteTimeLimit(sites, defaultTimeLimit, h.site)
     IN IF timeSpent >= siteLimitMs
        THEN Apply([Session EXCEPT !.handlers =
                      Spawn(Retire(handlers, h), [h EXCEPT !.pc = "block"])])
        ELSE Apply(StartTracking(Without(h), h.site, h.tabId))
  /\ uncaught' = FALSE
  /\ response' = NoResponse
  /\ UNCHANGED surfaces
  /\ UNCHANGED <<now, tabs, activeTabId, focused, store, sites, defaultTimeLimit, timeZone>>

\* blockSite: chrome.tabs.update answers (ok) or throws (~ok)
BlockDone(h, ok) ==
  /\ h \in BagToSet(handlers)
  /\ h.pc = "block"
  /\ IF ok
     THEN /\ tabs' = [tabs EXCEPT ![h.tabId] = BlockedUrl]
          /\ Apply(StopTracking(Without(h)))
     ELSE /\ tabs' = tabs
          /\ Apply(Without(h))
  /\ uncaught' = FALSE
  /\ response' = NoResponse
  /\ UNCHANGED surfaces
  /\ UNCHANGED <<now, activeTabId, focused, store, sites, defaultTimeLimit, timeZone>>

----------------------------------------------------------------------------
(* updateTimeSpent *)

\* getTimeData answers; setTimeData is issued
UpdateRead(h, ok) ==
  /\ h \in Suspended("update", "read")
  /\ LET timeSpent == getTimeData(store, h.site, h.day, ok).timeSpent
         actualSessionTime == Clamp(h.sessionTime)
     IN Apply([Session EXCEPT !.handlers =
                 Spawn(Retire(handlers, h),
                       [h EXCEPT !.pc = "write", !.timeSpent = timeSpent,
                                 !.newTimeSpent = timeSpent + actualSessionTime,
                                 !.day = getTodayString(now)])])
  /\ uncaught' = FALSE
  /\ response' = NoResponse
  /\ UNCHANGED surfaces
  /\ UNCHANGED <<now, tabs, activeTabId, focused, store, sites, defaultTimeLimit, timeZone>>

\* setTimeData answers (a failure is logged and swallowed); the session
\* start is reset and the thresholds are checked
UpdateWrite(h, ok) ==
  /\ h \in Suspended("update", "write")
  /\ store' = IF ok THEN StorageSet(store, LedgerKey(h.site, h.day), h.newTimeSpent)
              ELSE store
  /\ Apply(CheckTimeThresholds([Without(h) EXCEPT !.sessionStartTime = h.now], h))
  /\ uncaught' = FALSE
  /\ response' = NoResponse
  /\ UNCHANGED surfaces
  /\ UNCHANGED <<now, tabs, activeTabId, focused, sites, defaultTimeLimit, timeZone>>

\* showWarning: chrome.tabs.sendMessage answers or throws (no content script
\* in the tab); the failure is logged, nothing else follows
WarnDone(h, ok) ==
  /\ h \in Suspended("update", "warn")
  /\ Apply(Without(h))
  /\ uncaught' = FALSE
  /\ response' = NoResponse
  /\ UNCHANGED surfaces
  /\ UNCHANGED <<now, tabs, activeTabId, focused, store, sites, defaultTimeLimit, timeZone>>

----------------------------------------------------------------------------
(* resetDailyData *)

\* chrome.alarms.onAlarm for 'dailyReset'.  The alarm was created with
\* when: getNextMidnight() and a period of 24 hours: time has passed until
\* the next local midnight.  resetDailyData issues chrome.storage.local.get(null)
DailyAlarm ==
  /\ getTodayString(now) < RolloverDay + MaxRollovers
  /\ now' = getNextMidnight(now, timeZone)
  /\ Apply([Session EXCEPT !.handlers =
              Spawn(handlers, [Handler("reset", "getAll") EXCEPT !.from = "alarm"])])
  /\ uncaught' = FALSE
  /\ response' = NoResponse
  /\ UNCHANGED surfaces
  /\ UNCHANGED <<tabs, activeTabId, focused, store, sites, defaultTimeLimit, timeZone>>

\* the whole storage has been read: every key that starts with timeData_ is
\* to be removed; a failure of the read is logged.  Where resetDailyData
\* returns to handleMessage, the response is sent
ResetGot(h, ok) ==
  /\ h \in Suspended("reset", "getAll")
  /\ LET keysToRemove == {key \in DOMAIN store : isTimeKey(key)}
     IN IF ok /\ keysToRemove # {}
        THEN /\ Apply([Session EXCEPT !.handlers =
                         Spawn(Retire(handlers, h),
                               [h EXCEPT !.pc = "remove", !.keys = keysToRemove])])
             /\ response' = NoResponse
        ELSE /\ Apply(Without(h))
             /\ response' = IF h.from = "message" THEN Success ELSE NoResponse
  /\ uncaught' = FALSE
  /\ UNCHANGED surfaces
  /\ UNCHANGED <<now, tabs, activeTabId, focused, store, sites, defaultTimeLimit, timeZone>>

\* chrome.storage.local.remove(keysToRemove) answers; a failure is logged
ResetRemoved(h, ok) ==
  /\ h \in Suspended("reset", "remove")
  /\ store' = IF ok THEN [k \in DOMAIN store \ h.keys |-> store[k]] ELSE store
  /\ Apply(Without(h))
  /\ uncaught' = FALSE
  /\ response' = IF h.from = "message" THEN Success ELSE NoResponse
  /\ UNCHANGED surfaces
  /\ UNCHANGED <<now, tabs, activeTabId, focused, sites, defaultTimeLimit, timeZone>>

----------------------------------------------------------------------------
(* The legacy background script: resetDailyData *)

\* date < sevenDaysAgo, with date = new Date(dateStr), the UTC midnight of
\* the day of the key, and sevenDaysAgo = Date.now() - 7 * 24 * 60 * 60 * 1000
isOldSixDays(key, t) == key[2] * DayMs < t - 6 * DayMs
isOld(key, t) == key[2] * DayMs < t - 7 * DayMs

\* the alarm 'dailyReset' fires at the next local midnight; resetDailyData
\* issues chrome.storage.local.get()
LegacyDailyAlarm ==
  /\ getTodayString(now) < RolloverDay + MaxRollovers
  /\ now' = getNextMidnight(now, timeZone)
  /\ Apply([Session EXCEPT !.handlers =
              Spawn(handlers, [Handler("legacyReset", "getAll") EXCEPT !.from = "alarm"])])
  /\ uncaught' = FALSE
  /\ response' = NoResponse
  /\ UNCHANGED surfaces
  /\ UNCHANGED <<tabs, activeTabId, focused, store, sites, defaultTimeLimit, timeZone>>

\* the whole storage has been read: the time_ keys whose date is before
\* seven days ago are to be removed.  resetDailyData has no try: a failure
\* of the read rejects its promise, which nobody handles
LegacyResetGot(h, ok) ==
  /\ h \in Suspended("legacyReset", "getAll")
  /\ LET keysToRemove == {key \in DOMAIN store : isTimeKey(key) /\ isOld(key, now)}
     IN IF ok /\ keysToRemove # {}
        THEN Apply([Session EXCEPT !.handlers =
                      Spawn(Retire(handlers, h),
                            [h EXCEPT !.pc = "remove", !.keys = keysToRemove,
                                      !.now = now])])
        ELSE Apply(Without(h))
  /\ uncaught' = ~ok
  /\ response' = NoResponse
  /\ UNCHANGED surfaces
  /\ UNCHANGED <<now, tabs, activeTabId, focused, store, sites, defaultTimeLimit, timeZone>>

\* chrome.storage.local.remove(keysToRemove) answers or fails
LegacyResetRemoved(h, ok) ==
  /\ h \in Suspended("legacyReset", "remove")
  /\ store' = IF ok THEN [k \in DOMAIN store \ h.keys |-> store[k]] ELSE store
  /\ Apply(Without(h))
  /\ uncaught' = ~ok
  /\ response' = NoResponse
  /\ UNCHANGED surfaces
  /\ UNCHANGED <<now, tabs, activeTabId, focused, sites, defaultTimeLimit, timeZone>>

----------------------------------------------------------------------------
(* handleMessage *)

\* action 'setTimeData': setTimeData(request.site, request.data) issues
\* chrome.storage.local.set for the key of request.data.date
MessageSetTimeData(site, timeSpent, day) ==
  /\ Apply([Session EXCEPT !.handlers =
              Spawn(handlers, [Handler("message", "set") EXCEPT
                                 !.from = "setTimeData", !.site = site,
                                 !.newTimeSpent = timeSpent, !.day = day])])
  /\ uncaught' = FALSE
  /\ response' = NoResponse
  /\ UNCHANGED surfaces
  /\ UNCHANGED <<now, tabs, activeTabId, focused, store, sites, defaultTimeLimit, timeZone>>

\* chrome.storage.local.set answers (a failure is logged by setTimeData);
\* the response is sent
MessageSetDone(h, ok) ==
  /\ h \in Suspended("message", "set")
  /\ store' = IF ok THEN StorageSet(store, LedgerKey(h.site, h.day), h.newTimeSpent)
              ELSE store
  /\ Apply(Without(h))
  /\ uncaught' = FALSE
  /\ response' = Success
  /\ UNCHANGED surfaces
  /\ UNCHANGED <<now, tabs, activeTabId, focused, sites, defaultTimeLimit, timeZone>>

\* action 'getTimeData': getTimeData(request.site) issues
\* chrome.storage.local.get for today's key of the site
MessageGetTimeData(site) ==
  /\ Apply([Session EXCEPT !.handlers =
              Spawn(handlers, [Handler("message", "get") EXCEPT
                                 !.from = "getTimeData", !.site = site,
                                 !.day = getTodayString(now)])])
  /\ uncaught' = FALSE
  /\ response' = NoResponse
  /\ UNCHANGED surfaces
  /\ UNCHANGED <<now, tabs, activeTabId, focused, store, sites, defaultTimeLimit, timeZone>>

\* action 'getAllTimeData': getAllTimeData issues chrome.storage.local.get(null)
MessageGetAllTimeData ==
  /\ Apply([Session EXCEPT !.handlers =
              Spawn(handlers, [Handler("message", "get") EXCEPT
                                 !.from = "getAllTimeData",
                                 !.day = getTodayString(now)])])
  /\ uncaught' = FALSE
  /\ response' = NoResponse
  /\ UNCHANGED surfaces
  /\ UNCHANGED <<now, tabs, activeTabId, focused, store, sites, defaultTimeLimit, timeZone>>

\* the read answers, or fails and getTimeData / getAllTimeData return the
\* zero entry / no entries; the response is sent with the data
MessageGetDone(h, ok) ==
  /\ h \in Suspended("message", "get")
  /\ Apply(Without(h))
  /\ uncaught' = FALSE
  /\ response' = Success
  /\ UNCHANGED surfaces
  /\ UNCHANGED <<now, tabs, activeTabId, focused, store, sites, defaultTimeLimit, timeZone>>

\* action 'resetTodayData': resetDailyData issues chrome.storage.local.get(null)
MessageResetTodayData ==
  /\ Apply([Session EXCEPT !.handlers =
              Spawn(handlers, [Handler("reset", "getAll") EXCEPT !.from = "message"])])
  /\ uncaught' = FALSE
  /\ response' = NoResponse
  /\ UNCHANGED surfaces
  /\ UNCHANGED <<now, tabs, activeTabId, focused, store, sites, defaultTimeLimit, timeZone>>

\* any other action: the default case of the switch responds at once
MessageUnknown ==
  /\ uncaught' = FALSE
  /\ response' = Failure("Unknown action")
  /\ UNCHANGED surfaces
  /\ UNCHANGED <<now, timeZone, tabs, activeTabId, focused, store, sites,
                 defaultTimeLimit, activeTab, sessionStartTime, trackingInterval,
                 timers, handlers>>

\* action 'updateSettings': updateSettings replaces defaultTimeLimit and the
\* sites map by what the message carries and awaits saveSettings
updateSettings(settings) ==
  /\ defaultTimeLimit' = settings.defaultTimeLimit
  /\ sites' = settings.sites
  /\ Apply([Session EXCEPT !.handlers =
              Spawn(handlers,
                    [Handler("message", "save") EXCEPT
                       !.from = "updateSettings",
                       !.keys = {settings.sites[i].domain : i \in DOMAIN settings.sites}])])
  /\ uncaught' = FALSE
  /\ response' = NoResponse
  /\ UNCHANGED <<now, tabs, activeTabId, focused, store, timeZone>>

MessageUpdateSettings(settings) ==
  /\ updateSettings(settings)
  /\ UNCHANGED surfaces

\* updateSettings as it would end without the catch of handleMessage
MessageSettingsDoneNoCatch(h, ok) ==
  /\ h \in Suspended("message", "save")
  /\ Apply(Without(h))
  /\ uncaught' = ~ok
  /\ response' = IF ok THEN Success ELSE NoResponse
  /\ UNCHANGED surfaces
  /\ UNCHANGED <<now, tabs, activeTabId, focused, store, sites, defaultTimeLimit, timeZone>>

\* the settings are saved (a failure is logged by saveSettings) and the
\* content scripts notified: chrome.tabs.query answers (ok), or it throws
\* and handleMessage catches what updateSettings throws again (~ok); the
\* response is sent
MessageSettingsDone(h, ok) ==
  /\ h \in Suspended("message", "save")
  /\ Apply(Without(h))
  /\ uncaught' = FALSE
  /\ response' = IF ok THEN Success ELSE Failure("error")
  /\ UNCHANGED surfaces
  /\ UNCHANGED <<now, tabs, activeTabId, focused, store, sites, defaultTimeLimit, timeZone>>

----------------------------------------------------------------------------
(* The popup: PopupManager *)

PopupIndex(domain) ==
  IF \E i \in DOMAIN popup : popup[i].domain = domain
  THEN CHOOSE i \in DOMAIN popup : popup[i].domain = domain
  ELSE 0

\* createSiteElement renders the remove button of a site that is not a
\* default one
hasRemoveButtonAlways(config) == TRUE
hasRemoveButton(config) == ~config.isDefault

\* saveSettings: the sites of the popup go to the background in an
\* updateSettings message, which does not read isDefault
saveSettings(sitesMap) ==
  /\ popup' = sitesMap
  /\ updateSettings(
       [defaultTimeLimit |-> DEFAULT_TIME_LIMIT,
        sites |-> [i \in DOMAIN sitesMap |->
                     [domain |-> sitesMap[i].domain,
                      enabled |-> sitesMap[i].enabled,
                      timeLimit |-> sitesMap[i].timeLimit]]])
  /\ UNCHANGED <<notifications, content, capacity>>

\* the add button: a domain or a limit that does not validate and a site
\* that is already listed end in an error message
addCustomSite(domain, timeLimit) ==
  IF /\ validDomain(domain)
     /\ validTimeLimit(timeLimit)
     /\ PopupIndex(extractSite(domain)) = 0
  THEN saveSettings(Append(popup, [domain |-> extractSite(domain), enabled |-> TRUE,
                                   timeLimit |-> timeLimit, isDefault |-> FALSE]))
  ELSE UNCHANGED vars

\* the checkbox of a listed site
toggleSite(domain) ==
  /\ PopupIndex(domain) # 0
  /\ saveSettings([popup EXCEPT ![PopupIndex(domain)].enabled = ~@])

\* the limit field of a listed site: a value that does not validate ends in
\* an error message
updateSiteTimeLimit(domain, value) ==
  /\ PopupIndex(domain) # 0
  /\ IF validTimeLimit(value)
     THEN saveSettings([popup EXCEPT ![PopupIndex(domain)].timeLimit = value])
     ELSE UNCHANGED vars

\* the remove button of a listed site, where createSiteElement has rendered
\* one; confirmed: the answer to the confirm dialog
removeSite(domain, confirmed) ==
  /\ PopupIndex(domain) # 0
  /\ hasRemoveButton(popup[PopupIndex(domain)])
  /\ IF confirmed
     THEN saveSettings(SelectSeq(popup, LAMBDA config : config.domain # domain))
     ELSE UNCHANGED vars

----------------------------------------------------------------------------
(* The content script of a tab: ContentTimeManager *)

\* warningShown, warningElement: the fields of the state; warningElement is
\*   the number of the element that showWarning created, 0 for null
\* overlay:  TRUE iff the overlay of warningElement is in the page
\* created:  the number of warning elements created so far
\* timeouts: the pending setTimeout calls, each with the time it is due and
\*   the number of the warning whose showWarning has set it

\* hideWarning: remove the element, if there is one
hideWarning(c) ==
  IF c.warningElement # 0
  THEN [c EXCEPT !.warningElement = 0, !.overlay = FALSE, !.warningShown = FALSE]
  ELSE c

\* showWarning: nothing if a warning is shown; else the element is created
\* and added to the page, and hideWarning is set to run in 10 seconds
showWarning(c) ==
  IF c.warningShown
  THEN c
  ELSE [c EXCEPT !.warningShown = TRUE, !.warningElement = c.created + 1,
                 !.overlay = TRUE, !.created = c.created + 1,
                 !.timeouts = c.timeouts \cup
                    {[due |-> now + WarningDismissMs, warning |-> c.created + 1]}]

\* what a step of the content script leaves alone
ContentFrame ==
  /\ uncaught' = FALSE
  /\ response' = NoResponse
  /\ UNCHANGED <<notifications, popup, capacity>>
  /\ UNCHANGED <<now, timeZone, tabs, activeTabId, focused, store, sites,
                 defaultTimeLimit, activeTab, sessionStartTime, trackingInterval,
                 timers, handlers>>

\* the message 'showWarning' arrives, or checkCurrentSite calls showWarning
ContentShowWarning ==
  /\ content.warningShown \/ content.created < MaxWarnings
  /\ content' = showWarning(content)
  /\ ContentFrame

\* the message 'hideWarning' arrives
ContentHideWarning ==
  /\ content' = hideWarning(content)
  /\ ContentFrame

\* the button "I understand": this.closest('.wtm-warning-overlay').remove()
UnderstandClicked ==
  /\ content.overlay
  /\ content' = [content EXCEPT !.overlay = FALSE]
  /\ ContentFrame

\* a timeout that showWarning has set is due and runs hideWarning; timeouts
\* of the same delay run in the order in which they were set
DismissTimeout(t) ==
  /\ t \in content.timeouts
  /\ now >= t.due
  /\ \A u \in content.timeouts : u.due >= t.due
  /\ content' = [hideWarning(content) EXCEPT !.timeouts = content.timeouts \ {t}]
  /\ ContentFrame

\* time passes until the next timeout of the content script is due
TimeoutWait ==
  /\ \E t \in content.timeouts :
       /\ t.due > now
       /\ \A u \in content.timeouts : u.due >= t.due
       /\ now' = t.due
  /\ uncaught' = FALSE
  /\ response' = NoResponse
  /\ UNCHANGED surfaces
  /\ UNCHANGED <<timeZone, tabs, activeTabId, focused, store, sites,
                 defaultTimeLimit, activeTab, sessionStartTime, trackingInterval, timers,
                 handlers>>

----------------------------------------------------------------------------

Next ==
  \/ Second
  \/ \E t \in TabIds : TabActivated(t)
  \/ \E t \in TabIds, url \in TabUrls : TabUpdated(t, url)
  \/ WindowBlur
  \/ WindowFocus
  \/ \E h \in BagToSet(handlers), ok \in BOOLEAN : QueryDone(h, ok)
  \/ IntervalTick
  \/ \E h \in BagToSet(handlers), ok \in BOOLEAN : TabGot(h, ok)
  \/ \E h \in BagToSet(handlers), ok \in BOOLEAN : TabChangeRead(h, ok)
  \/ \E h \in BagToSet(handlers), ok \in BOOLEAN : BlockDone(h, ok)
  \/ \E h \in BagToSet(handlers), ok \in BOOLEAN : UpdateRead(h, ok)
  \/ \E h \in BagToSet(handlers), ok \in BOOLEAN : UpdateWrite(h, ok)
  \/ \E h \in BagToSet(handlers), ok \in BOOLEAN : WarnDone(h, ok)

Spec == Init /\ [][Next]_vars

\* Sleep and resume of the machine while tabs are switched
NextSleep ==
  \/ Second
  \/ SleepResume
  \/ \E t \in TabIds : TabActivated(t)
  \/ IntervalTick
  \/ \E h \in BagToSet(handlers), ok \in BOOLEAN : TabGot(h, ok)
  \/ \E h \in BagToSet(handlers), ok \in BOOLEAN : TabChangeRead(h, ok)
  \/ \E h \in BagToSet(handlers), ok \in BOOLEAN : BlockDone(h, ok)
  \/ \E h \in BagToSet(handlers), ok \in BOOLEAN : UpdateRead(h, ok)
  \/ \E h \in BagToSet(handlers), ok \in BOOLEAN : UpdateWrite(h, ok)
  \/ \E h \in BagToSet(handlers), ok \in BOOLEAN : WarnDone(h, ok)

SpecSleep == Init /\ [][NextSleep]_vars

\* Focus changes only: the interval timer never fires
NextNoTick ==
  \/ Second
  \/ \E t \in TabIds : TabActivated(t)
  \/ \E t \in TabIds, url \in TabUrls : TabUpdated(t, url)
  \/ WindowBlur
  \/ WindowFocus
  \/ \E h \in BagToSet(handlers), ok \in BOOLEAN : QueryDone(h, ok)
  \/ \E h \in BagToSet(handlers), ok \in BOOLEAN : TabGot(h, ok)
  \/ \E h \in BagToSet(handlers), ok \in BOOLEAN : TabChangeRead(h, ok)
  \/ \E h \in BagToSet(handlers), ok \in BOOLEAN : BlockDone(h, ok)
  \/ \E h \in BagToSet(handlers), ok \in BOOLEAN : UpdateRead(h, ok)
  \/ \E h \in BagToSet(handlers), ok \in BOOLEAN : UpdateWrite(h, ok)
  \/ \E h \in BagToSet(handlers), ok \in BOOLEAN : WarnDone(h, ok)

SpecNoTick == Init /\ [][NextNoTick]_vars

\* The daily rollover, in three time zones.  The ledger holds the entries of
\* youtube.com for today and the ten days before.
InitRollover ==
  /\ now = RolloverDay * DayMs + TickPeriod
  /\ timeZone \in TimeZones
  /\ tabs = [t \in TabIds |-> IF t = 1 THEN Url("https", WWW \o YT) ELSE Url("https", EX)]
  /\ activeTabId = 2
  /\ focused = TRUE
  /\ store = [k \in {LedgerKey(YT, d) : d \in 0..RolloverDay} |-> InitialTimeSpent]
  /\ sites = Registry
  /\ defaultTimeLimit = DEFAULT_TIME_LIMIT
  /\ activeTab = NoTab
  /\ sessionStartTime = 0
  /\ trackingInterval = 0
  /\ timers = {}
  /\ handlers = EmptyBag
  /\ uncaught = FALSE
  /\ response = NoResponse
  /\ InitSurfaces

NextRollover ==
  \/ DailyAlarm
  \/ \E t \in TabIds : TabActivated(t)
  \/ \E h \in BagToSet(handlers), ok \in BOOLEAN : TabGot(h, ok)
  \/ \E h \in BagToSet(handlers), ok \in BOOLEAN : TabChangeRead(h, ok)
  \/ \E h \in BagToSet(handlers), ok \in BOOLEAN : BlockDone(h, ok)
  \/ \E h \in BagToSet(handlers), ok \in BOOLEAN : UpdateRead(h, ok)
  \/ \E h \in BagToSet(handlers), ok \in BOOLEAN : UpdateWrite(h, ok)
  \/ \E h \in BagToSet(handlers), ok \in BOOLEAN : WarnDone(h, ok)
  \/ \E h \in BagToSet(handlers), ok \in BOOLEAN : ResetGot(h, ok)
  \/ \E h \in BagToSet(handlers), ok \in BOOLEAN : ResetRemoved(h, ok)

SpecRollover == InitRollover /\ [][NextRollover]_vars

\* Tab lookups that time out, and tabs that load what is not tracked: no
\* URL, a browser page, an extension page, the disabled reddit.com and the
\* unregistered example.org, next to www.youtube.com
LookupUrls ==
  {NoUrl, Url("chrome", EmptyStr), BlockedUrl, Url("https", RD), Url("https", EX),
   Url("https", WWW \o YT)}

NextLookup ==
  \/ SleepResume
  \/ \E t \in TabIds : TabActivated(t)
  \/ \E t \in TabIds, url \in LookupUrls : TabUpdated(t, url)
  \/ \E h \in BagToSet(handlers), ok \in BOOLEAN : TabGot(h, ok)
  \/ \E h \in BagToSet(handlers) : TabTimeout(h)
  \/ \E h \in BagToSet(handlers), ok \in BOOLEAN : LateTabGot(h, ok)
  \/ \E h \in BagToSet(handlers), ok \in BOOLEAN : TabChangeRead(h, ok)
  \/ \E h \in BagToSet(handlers), ok \in BOOLEAN : BlockDone(h, ok)
  \/ \E h \in BagToSet(handlers), ok \in BOOLEAN : UpdateRead(h, ok)
  \/ \E h \in BagToSet(handlers), ok \in BOOLEAN : UpdateWrite(h, ok)
  \/ \E h \in BagToSet(handlers), ok \in BOOLEAN : WarnDone(h, ok)

SpecLookup == Init /\ [][NextLookup]_vars

\* The popup at work on youtube.com and example.org while tabs are switched
\* and a second passes: www.example.org and a name
\* without a dot are added, limits of 2 and of 0 minutes are entered
PopupDomains == {YT, EX}
PopupInputs == {WWW \o EX, <<"e", "o">>}
PopupLimits == {2, MinTimeLimit - 1}

NextPopup ==
  \/ Second
  \/ \E domain \in PopupInputs, timeLimit \in {DEFAULT_TIME_LIMIT, MaxTimeLimit + 1} :
        addCustomSite(domain, timeLimit)
  \/ \E domain \in PopupDomains : toggleSite(domain)
  \/ \E domain \in PopupDomains, value \in PopupLimits : updateSiteTimeLimit(domain, value)
  \/ \E domain \in PopupDomains, confirmed \in BOOLEAN : removeSite(domain, confirmed)
  \/ \E h \in BagToSet(handlers), ok \in BOOLEAN : MessageSettingsDone(h, ok)
  \/ \E t \in TabIds : TabActivated(t)
  \/ \E h \in BagToSet(handlers), ok \in BOOLEAN : TabGot(h, ok)
  \/ \E h \in BagToSet(handlers), ok \in BOOLEAN : TabChangeRead(h, ok)
  \/ \E h \in BagToSet(handlers), ok \in BOOLEAN : BlockDone(h, ok)
  \/ \E h \in BagToSet(handlers), ok \in BOOLEAN : UpdateRead(h, ok)
  \/ \E h \in BagToSet(handlers), ok \in BOOLEAN : UpdateWrite(h, ok)
  \/ \E h \in BagToSet(handlers), ok \in BOOLEAN : WarnDone(h, ok)

SpecPopup == Init /\ [][NextPopup]_vars

\* The content script of one tab: warnings are shown, hidden and dismissed
\* while seconds pass and timeouts become due
NextContent ==
  \/ Second
  \/ TimeoutWait
  \/ ContentShowWarning
  \/ ContentHideWarning
  \/ UnderstandClicked
  \/ \E t \in content.timeouts : DismissTimeout(t)

SpecContent == Init /\ [][NextContent]_vars

\* The legacy script on the day of the rollover: the settings are stored,
\* and the ledger holds any of the days around the seven-day window
LegacyDays == {0, RolloverDay - 8, RolloverDay - 7, RolloverDay - 6, RolloverDay}

InitLegacy ==
  /\ now = RolloverDay * DayMs + TickPeriod
  /\ timeZone \in TimeZones
  /\ tabs = [t \in TabIds |-> IF t = 1 THEN Url("https", WWW \o YT) ELSE Url("https", EX)]
  /\ activeTabId = 2
  /\ focused = TRUE
  /\ \E days \in SUBSET LegacyDays :
       store = [k \in {LedgerKey(YT, d) : d \in days}
                       \cup {SitesKey, DefaultTimeLimitKey} |->
                  IF isTimeKey(k) THEN InitialTimeSpent ELSE 0]
  /\ sites = Registry
  /\ defaultTimeLimit = DEFAULT_TIME_LIMIT
  /\ activeTab = NoTab
  /\ sessionStartTime = 0
  /\ trackingInterval = 0
  /\ timers = {}
  /\ handlers = EmptyBag
  /\ uncaught = FALSE
  /\ response = NoResponse
  /\ InitSurfaces

NextLegacy ==
  \/ Second
  \/ LegacyDailyAlarm
  \/ \E h \in BagToSet(handlers), ok \in BOOLEAN : LegacyResetGot(h, ok)
  \/ \E h \in BagToSet(handlers), ok \in BOOLEAN : LegacyResetRemoved(h, ok)

SpecLegacy == InitLegacy /\ [][NextLegacy]_vars

\* "Reset today" while youtube.com is tracked: it is the second day, the
\* storage holds the settings and the entries of yesterday and of today
ResetStore ==
  [k \in {LedgerKey(YT, 0), LedgerKey(YT, 1), LedgerKey(RD, 1),
          SitesKey, DefaultTimeLimitKey} |->
     IF isTimeKey(k) THEN InitialTimeSpent ELSE 0]

InitReset ==
  /\ now = DayMs + TickPeriod
  /\ timeZone = 0
  /\ tabs = [t \in TabIds |-> IF t = 1 THEN Url("https", WWW \o YT) ELSE Url("https", EX)]
  /\ activeTabId = 2
  /\ focused = TRUE
  /\ store = ResetStore
  /\ sites = Registry
  /\ defaultTimeLimit = DEFAULT_TIME_LIMIT
  /\ activeTab = NoTab
  /\ sessionStartTime = 0
  /\ trackingInterval = 0
  /\ timers = {}
  /\ handlers = EmptyBag
  /\ uncaught = FALSE
  /\ response = NoResponse
  /\ InitSurfaces

NextReset ==
  \/ Second
  \/ MessageResetTodayData
  \/ \E h \in BagToSet(handlers), ok \in BOOLEAN : ResetGot(h, ok)
  \/ \E h \in BagToSet(handlers), ok \in BOOLEAN : ResetRemoved(h, ok)
  \/ \E t \in TabIds : TabActivated(t)
  \/ IntervalTick
  \/ \E h \in BagToSet(handlers), ok \in BOOLEAN : TabGot(h, ok)
  \/ \E h \in BagToSet(handlers), ok \in BOOLEAN : TabChangeRead(h, ok)
  \/ \E h \in BagToSet(handlers), ok \in BOOLEAN : BlockDone(h, ok)
  \/ \E h \in BagToSet(handlers), ok \in BOOLEAN : UpdateRead(h, ok)
  \/ \E h \in BagToSet(handlers), ok \in BOOLEAN : UpdateWrite(h, ok)
  \/ \E h \in BagToSet(handlers), ok \in BOOLEAN : WarnDone(h, ok)

SpecReset == InitReset /\ [][NextReset]_vars

\* The window loses and regains the focus; tabs are activated only while it
\* has the focus, so that after a blur the next focus event is the window's
NextBlur ==
  \/ Second
  \/ \E t \in TabIds : focused /\ TabActivated(t)
  \/ WindowBlur
  \/ WindowFocus
  \/ \E h \in BagToSet(handlers), ok \in BOOLEAN : QueryDone(h, ok)
  \/ IntervalTick
  \/ \E h \in BagToSet(handlers), ok \in BOOLEAN : TabGot(h, ok)
  \/ \E h \in BagToSet(handlers), ok \in BOOLEAN : TabChangeRead(h, ok)
  \/ \E h \in BagToSet(handlers), ok \in BOOLEAN : BlockDone(h, ok)
  \/ \E h \in BagToSet(handlers), ok \in BOOLEAN : UpdateRead(h, ok)
  \/ \E h \in BagToSet(handlers), ok \in BOOLEAN : UpdateWrite(h, ok)
  \/ \E h \in BagToSet(handlers), ok \in BOOLEAN : WarnDone(h, ok)

SpecBlur == Init /\ [][NextBlur]_vars

\* The site matcher at work: registries with youtube.com alone and with
\* m.youtube.com before and after it, tabs that load the hostnames around
\* them.  youtube.com has used up its minute, m.youtube.com is a second short.
SiteEntry(domain) == [domain |-> domain, enabled |-> TRUE, timeLimit |-> 1]
MatchRegistries ==
  {<<SiteEntry(YT)>>, <<SiteEntry(YT), SiteEntry(MYT)>>, <<SiteEntry(MYT), SiteEntry(YT)>>}
MatchUrls ==
  {Url("https", MYT), Url("https", NYT), Url("https", WWW \o YT), Url("file", EmptyStr)}

InitMatch ==
  /\ now = TickPeriod
  /\ timeZone = 0
  /\ tabs = [t \in TabIds |-> Url("https", EX)]
  /\ activeTabId = 2
  /\ focused = TRUE
  /\ store = [k \in {LedgerKey(YT, 0), LedgerKey(MYT, 0)} |->
                IF k[1] = YT THEN InitialTimeSpent + TickPeriod ELSE InitialTimeSpent]
  /\ sites \in MatchRegistries
  /\ defaultTimeLimit = DEFAULT_TIME_LIMIT
  /\ activeTab = NoTab
  /\ sessionStartTime = 0
  /\ trackingInterval = 0
  /\ timers = {}
  /\ handlers = EmptyBag
  /\ uncaught = FALSE
  /\ response = NoResponse
  /\ InitSurfaces

NextMatch ==
  \/ \E t \in TabIds : TabActivated(t)
  \/ \E t \in TabIds, url \in MatchUrls : TabUpdated(t, url)
  \/ \E h \in BagToSet(handlers), ok \in BOOLEAN : TabGot(h, ok)
  \/ \E h \in BagToSet(handlers), ok \in BOOLEAN : TabChangeRead(h, ok)
  \/ \E h \in BagToSet(handlers), ok \in BOOLEAN : BlockDone(h, ok)
  \/ \E h \in BagToSet(handlers), ok \in BOOLEAN : UpdateRead(h, ok)
  \/ \E h \in BagToSet(handlers), ok \in BOOLEAN : UpdateWrite(h, ok)
  \/ \E h \in BagToSet(handlers), ok \in BOOLEAN : WarnDone(h, ok)

SpecMatch == InitMatch /\ [][NextMatch]_vars

\* Two tracked sites in two tabs: youtube.com, a second short of its minute,
\* and reddit.com, switched on and unused today
TwoSites == <<SiteEntry(YT), SiteEntry(RD)>>

InitTwoSites ==
  /\ now = TickPeriod
  /\ timeZone = 0
  /\ tabs = [t \in TabIds |-> IF t = 1 THEN Url("https", WWW \o YT) ELSE Url("https", RD)]
  /\ activeTabId = 2
  /\ focused = TRUE
  /\ store = InitialStore
  /\ sites = TwoSites
  /\ defaultTimeLimit = DEFAULT_TIME_LIMIT
  /\ activeTab = NoTab
  /\ sessionStartTime = 0
  /\ trackingInterval = 0
  /\ timers = {}
  /\ handlers = EmptyBag
  /\ uncaught = FALSE
  /\ response = NoResponse
  /\ InitSurfaces

NextTwoSites ==
  \/ Second
  \/ \E t \in TabIds : TabActivated(t)
  \/ IntervalTick
  \/ \E h \in BagToSet(handlers), ok \in BOOLEAN : TabGot(h, ok)
  \/ \E h \in BagToSet(handlers), ok \in BOOLEAN : TabChangeRead(h, ok)
  \/ \E h \in BagToSet(handlers), ok \in BOOLEAN : BlockDone(h, ok)
  \/ \E h \in BagToSet(handlers), ok \in BOOLEAN : UpdateRead(h, ok)
  \/ \E h \in BagToSet(handlers), ok \in BOOLEAN : UpdateWrite(h, ok)
  \/ \E h \in BagToSet(handlers), ok \in BOOLEAN : WarnDone(h, ok)

SpecTwoSites == InitTwoSites /\ [][NextTwoSites]_vars

\* The user switches to the youtube.com tab and stays there: no other focus
\* event follows, every storage and tab call is answered without an error,
\* and the clock moves on by one tick period once the time of the session so
\* far has been put into an update, as with a setInterval that is served in
\* time.
InitLive ==
  /\ now = TickPeriod
  /\ timeZone = 0
  /\ tabs = [t \in TabIds |-> IF t = 1 THEN Url("https", WWW \o YT) ELSE Url("https", EX)]
  /\ activeTabId = 2
  /\ focused = TRUE
  /\ store = InitialStore
  /\ sites = Registry
  /\ defaultTimeLimit = DEFAULT_TIME_LIMIT
  /\ activeTab = NoTab
  /\ sessionStartTime = 0
  /\ trackingInterval = 0
  /\ timers = {}
  /\ handlers = EmptyBag
  /\ uncaught = FALSE
  /\ response = NoResponse
  /\ capacity = MaxOverlap
  /\ notifications = 0
  /\ popup = PopupSites
  /\ content = [warningShown |-> FALSE, warningElement |-> 0, overlay |-> FALSE,
                created |-> 0, timeouts |-> {}]

SwitchToSite ==
  /\ activeTabId # 1
  /\ TabActivated(1)

SecondTracked ==
  /\ activeTab # NoTab
  /\ sessionStartTime = now
  /\ Second

TabGotOk == \E h \in BagToSet(handlers) : TabGot(h, TRUE)
TabChangeReadOk == \E h \in BagToSet(handlers) : TabChangeRead(h, TRUE)
UpdateReadOk == \E h \in BagToSet(handlers) : UpdateRead(h, TRUE)
UpdateWriteOk == \E h \in BagToSet(handlers) : UpdateWrite(h, TRUE)
BlockDoneOk == \E h \in BagToSet(handlers) : BlockDone(h, TRUE)
WarnDoneOk == \E h \in BagToSet(handlers) : WarnDone(h, TRUE)

NextLive ==
  \/ SwitchToSite
  \/ SecondTracked
  \/ IntervalTick
  \/ TabGotOk
  \/ TabChangeReadOk
  \/ UpdateReadOk
  \/ UpdateWriteOk
  \/ BlockDoneOk
  \/ WarnDoneOk

\* the browser delivers the event, fires the interval timer and answers
\* every call that is pending
FairLive ==
  /\ WF_vars(SwitchToSite)
  /\ WF_vars(SecondTracked)
  /\ WF_vars(IntervalTick)
  /\ WF_vars(TabGotOk)
  /\ WF_vars(TabChangeReadOk)
  /\ WF_vars(UpdateReadOk)
  /\ WF_vars(UpdateWriteOk)
  /\ WF_vars(BlockDoneOk)
  /\ WF_vars(WarnDoneOk)

SpecLive == InitLive /\ [][NextLive]_vars /\ FairLive

\* Messages from the other extension surfaces while tabs are switched.
\* The settings that a message carries: the stored registry, the registry
\* with youtube.com switched off, and a site without a dot whose limit is
\* over the maximum.
MessageSettings ==
  {[defaultTimeLimit |-> DEFAULT_TIME_LIMIT, sites |-> Registry],
   [defaultTimeLimit |-> DEFAULT_TIME_LIMIT,
    sites |-> <<[domain |-> YT, enabled |-> FALSE, timeLimit |-> 1]>>],
   [defaultTimeLimit |-> DEFAULT_TIME_LIMIT,
    sites |-> <<[domain |-> <<"y", "c">>, enabled |-> TRUE,
                 timeLimit |-> MaxTimeLimit + 1]>>]}

\* the timeSpent that a setTimeData message carries: nothing, or the limit
MessageTimes == {0, getSiteTimeLimit(Registry, DEFAULT_TIME_LIMIT, YT)}

NextMessages ==
  \/ \E t \in MessageTimes : MessageSetTimeData(YT, t, getTodayString(now))
  \/ MessageGetTimeData(YT)
  \/ MessageGetAllTimeData
  \/ MessageResetTodayData
  \/ MessageUnknown
  \/ \E h \in BagToSet(handlers), ok \in BOOLEAN : MessageGetDone(h, ok)
  \/ \E h \in BagToSet(handlers), ok \in BOOLEAN : ResetGot(h, ok)
  \/ \E h \in BagToSet(handlers), ok \in BOOLEAN : ResetRemoved(h, ok)
  \/ \E settings \in MessageSettings : MessageUpdateSettings(settings)
  \/ \E h \in BagToSet(handlers), ok \in BOOLEAN : MessageSetDone(h, ok)
  \/ \E h \in BagToSet(handlers), ok \in BOOLEAN : MessageSettingsDone(h, ok)
  \/ \E t \in TabIds : TabActivated(t)
  \/ \E h \in BagToSet(handlers), ok \in BOOLEAN : TabGot(h, ok)
  \/ \E h \in BagToSet(handlers), ok \in BOOLEAN : TabChangeRead(h, ok)
  \/ \E h \in BagToSet(handlers), ok \in BOOLEAN : BlockDone(h, ok)
  \/ \E h \in BagToSet(handlers), ok \in BOOLEAN : UpdateRead(h, ok)
  \/ \E h \in BagToSet(handlers), ok \in BOOLEAN : UpdateWrite(h, ok)
  \/ \E h \in BagToSet(handlers), ok \in BOOLEAN : WarnDone(h, ok)

SpecMessages == Init /\ [][NextMessages]_vars

----------------------------------------------------------------------------
(* Properties *)

\* the step completes the pending browser call of handler h
Answered(h) == CopiesIn(h, handlers') < CopiesIn(h, handlers)

Today == getTodayString(now)

C2_NoDoubleCredit ==
  \A k \in DOMAIN store :
     store[k] <= InitialTimeSpent + (now - TickPeriod)

\* C3: the stored timeSpent of every (site, day) is non-negative and never
\* decreases (the model has no reset and no rollover step).
C3_LedgerMonotone ==
  [][\A k \in DOMAIN store :
       /\ k \in DOMAIN store'
       /\ store'[k] >= store[k]
       /\ store'[k] >= 0]_vars

\* C4: at most one session and at most one live interval timer, which is the
\* timer of the session: a timer is cancelled before the next one is created.
C4_OneTimer ==
  /\ Cardinality(timers) <= 1
  /\ timers = IF trackingInterval = 0 THEN {} ELSE {trackingInterval}
  /\ trackingInterval # 0 <=> activeTab # NoTab

\* a session is running while the flush of the session before it is pending
C4_Witness ==
  /\ activeTab # NoTab
  /\ timers # {}
  /\ \E h \in BagToSet(handlers) : h.kind = "update" /\ h.from = "stop"

\* C5: Block prevents restart.  handleTabChange enters startTracking for a
\* site only while the ledger of (site, today) is below the limit.
StartsTracking(h) ==
  /\ Answered(h)
  /\ CopiesIn([h EXCEPT !.pc = "block"], handlers')
       = CopiesIn([h EXCEPT !.pc = "block"], handlers)

C5_BlockPreventsRestart ==
  [][\A h \in Suspended("tabChange", "read") :
       StartsTracking(h) =>
         Ledger(store, h.site, Today) < getSiteTimeLimit(sites, defaultTimeLimit, h.site)]_vars

\* C6: Blocking happens exactly once per block event.  For no tab are two
\* navigations to the blocked page, issued by updateTimeSpent, pending.
BlocksPending(t) ==
  LET hs == {h \in BagToSet(handlers) : h.kind = "update" /\ h.pc = "block" /\ h.tabId = t}
      Sum[S \in SUBSET hs] ==
        IF S = {} THEN 0
        ELSE LET h == CHOOSE x \in S : TRUE
             IN CopiesIn(h, handlers) + Sum[S \ {h}]
  IN Sum[hs]

C6_BlockedOnce == \A t \in TabIds : BlocksPending(t) <= 1

\* C7: the flush of a stopped session that completes while a new session is
\* running leaves activeTab, sessionStartTime and the interval timer alone.
C7_FlushKeepsNewSession ==
  [][\A h \in Suspended("update", "write") :
       (h.from = "stop" /\ Answered(h) /\ activeTab # NoTab) =>
         /\ activeTab' = activeTab
         /\ sessionStartTime' = sessionStartTime
         /\ trackingInterval' = trackingInterval
         /\ timers' = timers]_vars

\* C8: when no handler is in flight, a tracked tab is the active tab of the
\* focused window, shows the tracked site, the site is enabled and its
\* ledger is below the limit.
C8_TracksFocusedSite ==
  (handlers = EmptyBag /\ activeTab # NoTab) =>
     /\ focused
     /\ activeTab.tabId = activeTabId
     /\ ~isSystemUrl(tabs[activeTab.tabId])
     /\ findMatchingSite(extractSite(tabs[activeTab.tabId].host), sites) = activeTab.site
     /\ siteEnabled(sites, activeTab.site)
     /\ Ledger(store, activeTab.site, Today)
          < getSiteTimeLimit(sites, defaultTimeLimit, activeTab.site)

\* C9: Idempotent stop.  A second stopTracking right after a first one
\* changes nothing, and stopTracking in Idle starts no flush, keeps the
\* tracker Idle and touches no timer.
C9_IdempotentStop ==
  LET once == StopTracking(Session)
  IN /\ StopTracking(once) = once
     /\ activeTab = NoTab =>
          /\ once.handlers = handlers
          /\ once.activeTab = NoTab
          /\ once.sessionStartTime = 0
          /\ once.trackingInterval = trackingInterval
          /\ once.timers = timers

\* stopTracking has just stopped a session: its flush awaits the storage read
C9_Witness ==
  /\ activeTab = NoTab
  /\ sessionStartTime = 0
  /\ \E h \in Suspended("update", "read") : h.from = "stop" /\ h.now = now

\* C10 as stated: focus changes without interval ticks credit nothing, no
\* ledger entry grows.
C10_NothingCredited ==
  \A k \in DOMAIN store : store[k] <= Ledger(InitialStore, k[1], k[2])

\* C10 as amended: without interval ticks time is credited only by the flush
\* of stopTracking; each flush credits the elapsed time it observed, clamped
\* to 5000 ms, and as long as no wall-clock time has passed nothing is
\* credited.
C10_OnlyFlushesCredit ==
  /\ \A h \in BagToSet(handlers) : h.kind = "update" => h.from = "stop"
  /\ \A h \in BagToSet(handlers) :
       (h.kind = "update" /\ h.pc # "read") =>
          /\ h.newTimeSpent - h.timeSpent = Min(h.sessionTime, MAX_UPDATE_INTERVAL)
          /\ h.sessionTime >= 0
          /\ h.sessionTime <= h.now - TickPeriod
  /\ now = TickPeriod => \A k \in DOMAIN store : store[k] <= InitialTimeSpent

\* a flush has credited a second, and one has credited nothing
C10_Witness ==
  /\ \E h \in BagToSet(handlers) :
       h.kind = "update" /\ h.pc = "write" /\ h.newTimeSpent = h.timeSpent + TickPeriod
  /\ \E h \in BagToSet(handlers) :
       h.kind = "update" /\ h.pc = "write" /\ h.newTimeSpent = h.timeSpent

\* the limits of the registry and the default limit, and for a limit the
\* times around its two thresholds
ThresholdLimits ==
  {getSiteTimeLimit(sites, defaultTimeLimit, sites[i].domain) : i \in 1..Len(sites)}
ThresholdTimes(limitMs) ==
  {0, (4 * limitMs) \div 5 - 1, (4 * limitMs) \div 5, limitMs - 1, limitMs,
   limitMs + 1, 2 * limitMs}

\* the times that the updateTimeSpent calls in flight have computed
EvaluatedTimes ==
  {h.newTimeSpent : h \in {x \in BagToSet(handlers) :
                             x.kind = "update" /\ x.pc \in {"write", "block", "warn"}}}

\* the step adds a handler like h, suspended on pc for the session's tab
Issues(h, pc) ==
  LET g == [h EXCEPT !.pc = pc, !.tabId = activeTab.tabId]
  IN CopiesIn(g, handlers') > CopiesIn(g, handlers)

\* C11: Threshold classification.  With a session active, the
\* checkTimeThresholds of an updateTimeSpent navigates the session's tab to
\* the blocked page iff timeSpent >= limitMs, sends showWarning iff
\* 0.8 * limitMs <= timeSpent < limitMs, and otherwise does nothing; the
\* branch it takes is Blocked, Warning, Normal by the same conditions for
\* the times around the thresholds of every limit.
C11_Classification ==
  [][/\ \A limitMs \in ThresholdLimits :
          \A t \in ThresholdTimes(limitMs) \cup EvaluatedTimes :
             /\ limitMs > 0
             /\ ThresholdState(t, limitMs) = "Blocked" <=> t >= limitMs
             /\ ThresholdState(t, limitMs) = "Warning"
                  <=> (4 * limitMs <= 5 * t /\ t < limitMs)
             /\ ThresholdState(t, limitMs) = "Normal" <=> 5 * t < 4 * limitMs
     /\ \A h \in Suspended("update", "write") :
          (Answered(h) /\ activeTab # NoTab) =>
             LET limitMs == getSiteTimeLimit(sites, defaultTimeLimit, h.site)
                 t == h.newTimeSpent
             IN /\ Issues(h, "block") <=> t >= limitMs
                /\ Issues(h, "warn") <=> (4 * limitMs <= 5 * t /\ t < limitMs)
                /\ 5 * t < 4 * limitMs => handlers' = Retire(handlers, h)]_vars

\* an update that reached the limit exactly waits for its navigation, and one
\* that stayed below it for its warning
C11_Witness ==
  /\ \E h \in Suspended("update", "block") :
       h.newTimeSpent = getSiteTimeLimit(sites, defaultTimeLimit, h.site)
  /\ \E h \in Suspended("update", "warn") :
       h.newTimeSpent < getSiteTimeLimit(sites, defaultTimeLimit, h.site)

\* Normal < Warning < Blocked
Severity(state) ==
  CASE state = "Normal" -> 0 [] state = "Warning" -> 1 [] state = "Blocked" -> 2

\* C12: Threshold monotonicity.  For a fixed limit the severity of the
\* threshold state never decreases when timeSpent increases.
C12_Monotone ==
  \A limitMs \in ThresholdLimits :
     \A t1, t2 \in ThresholdTimes(limitMs) \cup EvaluatedTimes :
        t1 <= t2 =>
          Severity(ThresholdState(t1, limitMs)) <= Severity(ThresholdState(t2, limitMs))

\* two updates of one site in flight whose times ascend from
\* Normal to Blocked
C12_Witness ==
  \E h1, h2 \in BagToSet(handlers) :
     /\ h1.kind = "update" /\ h1.pc = "write" /\ h2.kind = "update" /\ h2.pc = "block"
     /\ h1.site = h2.site
     /\ h1.newTimeSpent < h2.newTimeSpent
     /\ ThresholdState(h1.newTimeSpent, getSiteTimeLimit(sites, defaultTimeLimit, h1.site)) = "Normal"
     /\ ThresholdState(h2.newTimeSpent, getSiteTimeLimit(sites, defaultTimeLimit, h2.site)) = "Blocked"

\* the step completes the storage write of h and the entry does not hold
\* the value that h wrote: chrome.storage.local.set has failed
WriteFailed(h) ==
  /\ h.kind = "update" /\ h.pc = "write"
  /\ Answered(h)
  /\ Ledger(store', h.site, h.day) # h.newTimeSpent

\* the step completes the storage read of h with the zero entry although
\* an entry is stored: chrome.storage.local.get has failed
ReadFailed(h) ==
  /\ h.kind = "update" /\ h.pc = "read"
  /\ Answered(h)
  /\ Ledger(store, h.site, Today) # 0
  /\ \E g \in BagToSet(handlers') :
        /\ g.kind = "update" /\ g.pc = "write" /\ g.timeSpent = 0
        /\ CopiesIn(g, handlers') > CopiesIn(g, handlers)

\* C13: Error during tick.  When the storage read or the storage write of
\* an interval tick fails, the tracker is Idle afterwards: the session
\* fields are cleared and the interval timer is cancelled.
C13_ErrorForcesIdle ==
  [][\A h \in BagToSet(handlers) :
       (h.from = "interval" /\ (ReadFailed(h) \/ WriteFailed(h))) =>
          /\ activeTab' = NoTab
          /\ sessionStartTime' = 0
          /\ trackingInterval' = 0
          /\ timers' = {}]_vars

\* C14: when the storage write of a tick fails while its session is
\* running, the session goes on and its sessionStartTime is not advanced:
\* the elapsed time that was not stored stays to be credited.
C14_FailedWriteRetried ==
  [][\A h \in BagToSet(handlers) :
       (h.from = "interval" /\ WriteFailed(h) /\ activeTab # NoTab) =>
          /\ activeTab' = activeTab
          /\ sessionStartTime' <= sessionStartTime]_vars

\* C15: no run of an event handler or of a callback ends with an exception
\* that nothing catches.
C15_NoUncaught == ~uncaught

\* the ledger entries are kept for seven days
RetentionDays == 7

\* C16: Rollover retention.  When resetDailyData has removed its keys, the
\* entries that are gone are exactly those older than the retention window
\* of seven days; the entries of the last seven days and of today remain.
C16_RolloverRetention ==
  [][\A h \in Suspended("reset", "remove") :
       (Answered(h) /\ store' # store) =>
          \A k \in DOMAIN store :
             k \in DOMAIN store' <=> k[2] >= getTodayString(now) - RetentionDays]_vars

\* C17: A new day gets a fresh entry.  The first value stored for a
\* (site, day) is at most one clamped credit of 5000 ms.
C17_FreshEntry ==
  [][\A k \in DOMAIN store' :
       k \notin DOMAIN store => store'[k] <= MAX_UPDATE_INTERVAL]_vars

\* C18: the day of the ledger key is the local calendar day.  It changes at
\* the next local midnight, the instant of the daily rollover, and not
\* before.
C18_LocalDay ==
  LET midnight == getNextMidnight(now, timeZone)
  IN /\ getTodayString(midnight - 1) = getTodayString(now)
     /\ getTodayString(midnight) = getTodayString(now) + 1

\* the registered sites, and those that a hostname equals or is a strict
\* subdomain of
Registered(reg) == {reg[i].domain : i \in 1..Len(reg)}
Candidates(hostname, reg) ==
  {site \in Registered(reg) :
     \/ hostname = site
     \/ /\ Len(hostname) > Len(site) + 1
        /\ SubSeq(hostname, Len(hostname) - Len(site), Len(hostname)) = <<".">> \o site}

\* the hostnames that the tabs show and that handleTabChange looks up
TabHostnames == {extractSite(tabs[t].host) : t \in TabIds} \cup {EmptyStr, MYT, NYT}

C20_ExactMatchWins ==
  /\ \A hostname \in TabHostnames :
       hostname \in Registered(sites) => findMatchingSite(hostname, sites) = hostname
  /\ findMatchingSite(MYT, <<SiteEntry(YT), SiteEntry(MYT)>>) = MYT
  /\ findMatchingSite(MYT, <<SiteEntry(MYT), SiteEntry(YT)>>) = MYT

\* youtube.com comes first in the registry and is exhausted; the tab of
\* m.youtube.com is tracked as m.youtube.com
C20_Witness ==
  /\ sites = <<SiteEntry(YT), SiteEntry(MYT)>>
  /\ activeTab # NoTab
  /\ activeTab.site = MYT
  /\ tabs[activeTab.tabId].host = MYT

\* C21: Sole writer.  The timeSpent of a ledger entry changes only by the
\* storage write of an updateTimeSpent (tick or flush); no message changes
\* a timeSpent, and updating the registry leaves the ledger alone.
C21_SoleWriter ==
  [][\A k \in DOMAIN store' :
       Ledger(store', k[1], k[2]) # Ledger(store, k[1], k[2]) =>
         \E h \in Suspended("update", "write") :
            /\ Answered(h)
            /\ k = LedgerKey(h.site, h.day)
            /\ store'[k] = h.newTimeSpent]_vars

\* C22: every block event emits exactly one user notification: the step in
\* which blockSite has navigated a tab to the blocked page creates one
\* notification, and no other step creates any.
C22_OneNotification ==
  [][/\ \A h \in BagToSet(handlers) :
          (h.pc = "block" /\ Answered(h)
             /\ tabs[h.tabId] # BlockedUrl /\ tabs'[h.tabId] = BlockedUrl)
          => notifications' = notifications + 1
     /\ notifications' \in {notifications, notifications + 1}]_vars

\* C23: the registry is never populated with an invalid entry: every entry
\* of the background registry has a valid domain and a limit in [1,480],
\* whatever add, limit change or updateSettings message was received.
C23_RegistryValid ==
  \A i \in DOMAIN sites :
     validDomain(sites[i].domain) /\ validTimeLimit(sites[i].timeLimit)

\* C30: Idle clears all session fields: in every reachable state activeTab,
\* sessionStartTime and trackingInterval are either all set (Tracking) or
\* all null (Idle), also after a stop whose flush completes later.
C30_AllSetOrAllNull ==
  \/ activeTab = NoTab /\ sessionStartTime = 0 /\ trackingInterval = 0
  \/ activeTab # NoTab /\ sessionStartTime # 0 /\ trackingInterval # 0

\* C28: every tab or window focus change event first forces Tracking ->
\* Idle before the new target is resolved: a step that issues the tab
\* lookup of a focus event (chrome.tabs.query or chrome.tabs.get) leaves no
\* session active and no tick timer running.
C28_StopsBeforeLookup ==
  [][\A h \in BagToSet(handlers') :
       (/\ h.pc \in {"query", "getTab"}
        /\ CopiesIn(h, handlers') > CopiesIn(h, handlers))
       => activeTab' = NoTab /\ trackingInterval' = 0]_vars

\* C26: getTimeData(site) never fails: the timeSpent that an updateTimeSpent
\* continues with after its read is the stored entry of (site, today) if one
\* exists and otherwise, also when the storage read itself fails, zero; the
\* step of the answer reports no error.
C26_GetNeverFails ==
  [][\A h \in Suspended("update", "read") \cup Suspended("tabChange", "read") :
       Answered(h) =>
         /\ ~uncaught'
         /\ \A g \in BagToSet(handlers') :
              (g.pc = "write" /\ CopiesIn(g, handlers') > CopiesIn(g, handlers))
              => /\ g.site = h.site
                 /\ g.timeSpent \in {Ledger(store, h.site, h.day), 0}
                 /\ LedgerKey(h.site, h.day) \notin DOMAIN store
                      => g.timeSpent = 0]_vars

\* a failed read has been answered with the zero entry while an entry is
\* stored, and the write of the update is pending
C26_Witness ==
  \E g \in Suspended("update", "write") :
     /\ g.day = Today
     /\ Ledger(store, g.site, g.day) > 0
     /\ g.timeSpent = 0

\* the handlers that a step has started or moved on
Started(pc) ==
  {g \in BagToSet(handlers') :
     g.pc = pc /\ CopiesIn(g, handlers') > CopiesIn(g, handlers)}

Untracked ==
  {NoUrl, Url("chrome", EmptyStr), BlockedUrl, Url("https", RD), Url("https", EX)}

\* C29: from Idle, a focus event whose tab has no URL, a browser-internal or
\* extension URL, a hostname that matches no registered site or a disabled
\* site leaves the tracker Idle: when its lookup is answered, no session
\* field, timer, ledger entry, tab or notification changes and no ledger
\* read, write, warning or block is started.
C29_UntrackedStaysIdle ==
  [][\A h \in Suspended("tabChange", "getTab") :
       (Answered(h) /\ activeTab = NoTab /\ tabs[h.tabId] \in Untracked
          /\ sites = Registry)
       => /\ activeTab' = NoTab /\ sessionStartTime' = sessionStartTime
          /\ trackingInterval' = trackingInterval /\ timers' = timers
          /\ store' = store /\ tabs' = tabs /\ notifications' = notifications
          /\ Started("read") \cup Started("write") \cup Started("warn")
               \cup Started("block") = {}]_vars

\* the active tab shows the disabled reddit.com, the handler of the event
\* that brought it up has ended, and the tracker is Idle with the ledger as
\* it was
C29_Witness ==
  /\ tabs[activeTabId] = Url("https", RD)
  /\ handlers = EmptyBag
  /\ activeTab = NoTab /\ sessionStartTime = 0 /\ trackingInterval = 0
  /\ timers = {}
  /\ store = InitialStore

\* C24: a registry entry with isDefault = true is never removed by the
\* remove-site operation: after any sequence of add, toggle, limit-change and
\* remove operations of the popup, every built-in default site is still
\* listed in the popup, as a default site, and in the registry of the
\* background.
C24_DefaultsStay ==
  \A i \in DOMAIN PopupSites :
     /\ PopupIndex(PopupSites[i].domain) # 0
     /\ popup[PopupIndex(PopupSites[i].domain)].isDefault
     /\ SiteIndex(sites, PopupSites[i].domain) # 0

\* example.org has been added and removed again: a save of the settings
\* that held it is still in flight, and the default sites are listed
C24_Witness ==
  /\ PopupIndex(EX) = 0
  /\ \E h \in Suspended("message", "save") : EX \in h.keys
  /\ \A i \in DOMAIN PopupSites : PopupIndex(PopupSites[i].domain) # 0

\* C25: the content script shows at most one active warning at a time: a
\* showWarning received while a warning is shown creates nothing, and a
\* shown warning is removed only by an explicit hideWarning or by its own
\* auto-dismiss timeout, 10 seconds after it was shown.
C25_OneWarningOwnTimeout ==
  [][/\ content.warningShown => content'.created = content.created
     /\ (/\ content.warningElement # 0
         /\ content'.warningElement = 0
         /\ content'.timeouts # content.timeouts)
        => \E t \in content.timeouts \ content'.timeouts :
              t.warning = content.warningElement /\ now >= t.due]_vars

\* C31: in the legacy background script, resetDailyData removes exactly the
\* time_<site>_<date> entries whose date lies more than 7 days before now
\* and keeps every other key, today's entries and the settings keys
\* included.
C31_LegacyRetention ==
  [][\A h \in Suspended("legacyReset", "remove") :
       (Answered(h) /\ store' # store) =>
         /\ \A k \in DOMAIN store :
              k \in DOMAIN store' <=>
                ~(isTimeKey(k) /\ h.now - k[2] * DayMs > RetentionDays * DayMs)
         /\ \A k \in DOMAIN store' : k \in DOMAIN store /\ store'[k] = store[k]
         /\ {SitesKey, DefaultTimeLimitKey} \subseteq DOMAIN store'
         /\ \A k \in DOMAIN store :
              (isTimeKey(k) /\ k[2] = getTodayString(h.now)) => k \in DOMAIN store']_vars

\* a reset has removed the entry of eight days ago and kept the entry of six
\* days ago and the settings
C31_Witness ==
  /\ Suspended("legacyReset", "getAll") \cup Suspended("legacyReset", "remove") = {}
  /\ getTodayString(now) > RolloverDay
  /\ LedgerKey(YT, 0) \notin DOMAIN store
  /\ LedgerKey(YT, RolloverDay - 6) \in DOMAIN store
  /\ SitesKey \in DOMAIN store

\* the handlers of messages that have not been responded to
Pending(bag) ==
  {h \in BagToSet(bag) : h.kind = "message" \/ (h.kind = "reset" /\ h.from = "message")}

RECURSIVE Copies(_, _)
Copies(bag, hs) ==
  IF hs = {} THEN 0
  ELSE LET h == CHOOSE x \in hs : TRUE
       IN CopiesIn(h, bag) + Copies(bag, hs \ {h})

Unanswered(bag) == Copies(bag, Pending(bag))

\* C40: every message handled by handleMessage gets exactly one response: a
\* step sends at most one response; the step in which the handler of a
\* message ends sends one, success: true with no error text, or success:
\* false with an error text when updateSettings has thrown; no other step
\* sends a response, but for an unknown action, which is answered at once
\* with success: false and the text "Unknown action".
C40_OneResponse ==
  [][/\ response'.sent \in {0, 1}
     /\ Unanswered(handlers') < Unanswered(handlers)
        => /\ Unanswered(handlers') = Unanswered(handlers) - 1
           /\ response'.sent = 1
           /\ \E h \in Pending(handlers) :
                /\ Answered(h)
                /\ \/ response' = Success
                   \/ /\ h.from = "updateSettings"
                      /\ ~response'.success /\ response'.error # ""
     /\ Unanswered(handlers') >= Unanswered(handlers)
        => \/ response'.sent = 0
           \/ /\ response' = Failure("Unknown action")
              /\ handlers' = handlers]_vars

\* updateSettings has thrown and the response reports the failure while
\* another message is still being handled
C40_Witness ==
  /\ response.sent = 1 /\ ~response.success /\ response.error # ""
  /\ response.error # "Unknown action"
  /\ Unanswered(handlers) > 0

\* C37: a reset is not undone by an in-flight tick: once a reset has removed
\* the entries, the ledger holds only time credited after it, so the write
\* of an updateTimeSpent that creates an entry is based on a total of zero
\* and stores no more than one clamped credit.
C37_ResetNotUndone ==
  [][\A h \in Suspended("update", "write") :
       (/\ Answered(h)
        /\ LedgerKey(h.site, h.day) \notin DOMAIN store
        /\ LedgerKey(h.site, h.day) \in DOMAIN store')
       => /\ h.timeSpent = 0
          /\ store'[LedgerKey(h.site, h.day)] <= MAX_UPDATE_INTERVAL]_vars

\* C38: the resetTodayData message deletes today's ledger entries of all
\* sites and leaves every other stored key unchanged: the ledger entries of
\* previous days, sites and defaultTimeLimit.
C38_ResetTodayOnly ==
  [][\A h \in Suspended("reset", "remove") :
       (Answered(h) /\ h.from = "message" /\ store' # store) =>
         /\ \A k \in DOMAIN store :
              k \in DOMAIN store' <=> ~(isTimeKey(k) /\ k[2] = getTodayString(now))
         /\ \A k \in DOMAIN store' : k \in DOMAIN store /\ store'[k] = store[k]]_vars

\* C32: after a window-focus-lost event, once all in-flight handlers have
\* completed the tracker is Idle and stays Idle until the next tab or window
\* focus event: while the window is without focus and no handler is in
\* flight, no session is active and no interval timer is live, so that no
\* time is credited.
C32_IdleAfterBlur ==
  (~focused /\ handlers = EmptyBag)
  => activeTab = NoTab /\ trackingInterval = 0 /\ timers = {}

\* C33: the latest focus event wins: when the handlers of overlapping focus
\* events have all completed, a session that is being tracked is the
\* session of the tab of the latest event, the active tab, and of the site
\* that this tab shows, in whatever order the lookups and reads completed.
C33_LatestEventWins ==
  (handlers = EmptyBag /\ activeTab # NoTab) =>
     /\ activeTab.tabId = activeTabId
     /\ activeTab.site =
          findMatchingSite(extractSite(tabs[activeTabId].host), sites)

\* C34: the tracked site is always a registered, enabled site: when an
\* updateSettings message has been handled, no session is being tracked for
\* a site that the registry does not hold or holds disabled.
C34_TrackedSiteEnabled ==
  [][\A h \in Suspended("message", "save") :
       (Answered(h) /\ activeTab' # NoTab)
       => siteEnabled(sites', activeTab'.site)]_vars

\* C35: every threshold side effect that a tick or flush for site S
\* produces, the showWarning message or the navigation to the blocked page,
\* goes to the tab of the session for S, never to the tab of a session for
\* another site that started while the flush was awaiting storage.
C35_SideEffectOnOwnTab ==
  [][\A g \in Started("warn") \cup Started("block") :
       g.kind = "update" =>
         /\ activeTab # NoTab
         /\ g.tabId = activeTab.tabId
         /\ activeTab.site = g.site]_vars

\* C36: blocking site S only ends the session for S: when the navigation of
\* blockSite is answered while a session for another site is being tracked in
\* another tab than the one being navigated, that session and its interval
\* timer stay as they are.
C36_BlockEndsOwnSession ==
  [][\A h \in BagToSet(handlers) :
       (/\ h.pc = "block" /\ Answered(h)
        /\ activeTab # NoTab /\ activeTab.site # h.site
        /\ activeTab.tabId # h.tabId)
       => /\ activeTab' = activeTab
          /\ trackingInterval' = trackingInterval
          /\ timers' = timers]_vars

\* C39: eventual block.  When youtube.com, enabled and below its limit, is
\* tracked in the focused tab, the ticks keep firing and every call is
\* answered, then eventually the ledger reaches the limit, and from some
\* moment after it the tab shows the blocked page and the tracker is Idle
\* without an interval timer.
TrackedBelowLimit ==
  /\ activeTab = [site |-> YT, tabId |-> 1]
  /\ getTimeData(store, YT, Today, TRUE).timeSpent
       < getSiteTimeLimit(sites, defaultTimeLimit, YT)

LedgerAtLimit ==
  getTimeData(store, YT, Today, TRUE).timeSpent
    >= getSiteTimeLimit(sites, defaultTimeLimit, YT)

BlockedAndIdle ==
  /\ tabs[1] = BlockedUrl
  /\ activeTab = NoTab
  /\ trackingInterval = 0
  /\ timers = {}

====
